---- MODULE Spec2Model ----
(***************************************************************************)
(* Model of the yarn buildpack's build orchestration                       *)
(* (buildpacks/nodejs-yarn/src/main.rs, YarnBuildpack::build).             *)
(*                                                                         *)
(* One build is a straight-line walk through the body of build; pc is the  *)
(* position in that body.  Every external collaborator (a yarn command,    *)
(* a file read, a layer operation) is one action whose outcome is drawn    *)
(* nondeterministically.  Builds follow one another, without bound, on the *)
(* same cache layer, which is the only state that survives a build.        *)
(***************************************************************************)
EXTENDS Integers, Sequences, FiniteSets, TLC

VARIABLES
    inventory_parses, \* whether toml::from_str(INVENTORY) succeeds (fixed at compile time)
    pc,            \* position in build ("idle" before the first build)
    env,           \* `env`, the environment passed to every command
    pkg_json,      \* `pkg_json` as read from package.json
    enabled,       \* `node_build_scripts_metadata.enabled`: "absent", "true", "false"
    first_query,   \* outcome of the first cmd::yarn_version call (kind "None" before it)
    requery,       \* outcome of the cmd::yarn_version call after install_yarn
    requested,     \* `requested_yarn_cli_range`, {} before it is computed
    release,       \* `yarn_cli_release`, {} before it is resolved
    yarn_version,  \* `yarn_version`, <<>> before it is known
    zero_install,  \* `zero_install`: "unset", "true", "false"
    script_idx,    \* index of the next script of the `for script in scripts` loop
    lockfile,      \* yarn.lock content read by the cache layer reconcile, <<>> before
    decision,      \* cache decision of this build: "None", "Bypassed", "Reused", "Invalidated"
    layer,         \* the dependency cache layer: persisted key and contents
    layer_before,  \* the layer as it was when the build started
    last_reconciled, \* content of the latest reconcile of an earlier build, {} if none
    log,           \* the steps this build has executed, in order, with the env they got
    errors,        \* the errors build has returned (Err values), in order
    status,        \* "running", "success", "failed" ("none" before the first build)
    launch,        \* the launch processes of the returned BuildResult
    carried,       \* the value the returned error variant carries, <<>> if none
    headers,       \* the headers on_error has logged for this build
    detected,      \* the DetectResult of the latest detect call
    res_pc,        \* resolver runs: "off", "input", "chosen", "resolved"
    res_catalog,   \* resolver runs: the releases of the inventory, in order
    res_req,       \* resolver runs: the requirement
    res_result     \* resolver runs: what resolve returned

resolver == << res_pc, res_catalog, res_req, res_result >>

vars == << inventory_parses, pc, env, pkg_json, enabled, first_query,
           requery, requested, release, yarn_version, zero_install, script_idx,
           lockfile, decision, layer, layer_before, last_reconciled,
           log, errors, status, launch, carried, headers, detected, resolver >>

----------------------------------------------------------------------------
(* Bounds of the model *)

MaxMajor == 1
MaxByte == 1
MaxScripts == 2
MaxCatalog == 3

----------------------------------------------------------------------------
(* Versions, requirements and the release catalog *)

\* A version is <<major, minor, patch>>; a requirement is the prefix an
\* x-range fixes: <<1, 22>> is "1.22.x", <<2>> is "2.x".
DEFAULT_YARN_REQUIREMENT == << 1, 22 >>

Satisfies(v, req) == \A i \in 1..Len(req) : v[i] = req[i]

\* (major, then minor, then patch)
VersionLess(a, b) ==
    \/ a[1] < b[1]
    \/ a[1] = b[1] /\ a[2] < b[2]
    \/ a[1] = b[1] /\ a[2] = b[2] /\ a[3] < b[3]

\* The releases of the embedded inventory.toml, in file order
INVENTORY == << << 1, 21, 0 >>, << 1, 22, 0 >>, << 1, 22, 1 >> >>

\* One pass over the releases, keeping the best satisfying one seen so far
RECURSIVE ResolveFrom(_, _, _)
ResolveFrom(best, req, catalog) ==
    IF catalog = << >> THEN best
    ELSE LET v == Head(catalog)
             better == /\ Satisfies(v, req)
                       /\ \A b \in best : ~ VersionLess(v, b)
         IN  ResolveFrom(IF better THEN { v } ELSE best, req, Tail(catalog))

\* Faulty variant: the first satisfying release in file order is taken
Resolve_FirstMatch(req, catalog) ==
    LET hits == SelectSeq(catalog, LAMBDA v : Satisfies(v, req))
    IN  IF hits = << >> THEN {} ELSE { Head(hits) }

\* inventory.resolve(&requirement): the highest satisfying release, as an option
Resolve(req, catalog) == ResolveFrom({}, req, catalog)

\* Yarn::from_major
SupportedMajors == { 1, 2, 3, 4 }

FromMajor(major) == IF major \in SupportedMajors THEN { major } ELSE {}

----------------------------------------------------------------------------
(* Inputs of a build *)

\* Versions `yarn --version` may print
ReportedVersions == { << m, 22, 0 >> : m \in 0..MaxMajor }

\* Outcomes of cmd::yarn_version: Ok(version), or cmd::Error::{Spawn, Exit, Parse}
QueryOutcomes ==
    { [kind |-> "Ok", version |-> v] : v \in ReportedVersions }
      \cup { [kind |-> k, version |-> << >>] : k \in { "Spawn", "Exit", "Parse" } }

\* After install_yarn the installed release may answer as well
RequeryOutcomes(rel) ==
    QueryOutcomes \cup { [kind |-> "Ok", version |-> v] : v \in rel }

NoQuery == [kind |-> "None", version |-> << >>]

\* cfg::requested_yarn_range(&pkg_json): None, or Some(requirement)
DeclaredRanges == { {}, { << 1, 21 >> }, { << 2 >> } }

ScriptNames == { "build", "heroku-postbuild" }

\* pkg_json.build_scripts(): script names in declaration order, no repeats
ScriptLists ==
    { s \in UNION { [1..n -> ScriptNames] : n \in 0..MaxScripts } :
        \A i, j \in 1..Len(s) : i # j => s[i] # s[j] }

PackageJsons ==
    [ range : DeclaredRanges, scripts : ScriptLists, start : BOOLEAN ]

NoPackageJson == [ range |-> {}, scripts |-> << >>, start |-> FALSE ]

\* yarn.lock contents, as byte strings
Lockfiles == { << a >> : a \in 0..MaxByte }

----------------------------------------------------------------------------
(* Environment *)

\* Env::from_current()
BaseEnv == { "PATH=/usr/bin" }

\* The build-scope mutations of the layer env install_yarn returns
YarnBuildEnv == { "PATH=/layers/yarn/dist/bin" }

\* Faulty variant: the layer's environment replaces the base environment
ApplyBuildScope_Replace(layer_env, base) == layer_env

\* yarn_env.apply(Scope::Build, &env): a new Env, the argument is not changed
ApplyBuildScope(layer_env, base) == base \cup layer_env

----------------------------------------------------------------------------
(* The dependency cache layer (configure_yarn_cache) *)

\* Digest of the lockfile content: bijective numeration in base MaxByte + 2,
\* so that contents differing in any byte get different fingerprints.
RECURSIVE FingerprintFrom(_, _)
FingerprintFrom(h, bytes) ==
    IF bytes = << >> THEN h
    ELSE FingerprintFrom(h * (MaxByte + 2) + Head(bytes) + 1, Tail(bytes))

Fingerprint(content) == FingerprintFrom(0, content)

\* A layer that was never created: no persisted key, no contents
EmptyLayer == [ key |-> {}, contents |-> {} ]

\* reconcile, step 2 and 3: the decision for a non-bypassed call
ReconcileDecision(l, content) ==
    IF l.key = { Fingerprint(content) } THEN "Reused" ELSE "Invalidated"

\* Faulty variant: an invalidation overwrites the key but keeps the stale contents
ReconcileLayer_KeepsContents(l, content) ==
    IF ReconcileDecision(l, content) = "Reused"
    THEN l
    ELSE [ key |-> { Fingerprint(content) }, contents |-> l.contents ]

\* reconcile, step 3: the layer after a non-bypassed call
ReconcileLayer(l, content) ==
    IF ReconcileDecision(l, content) = "Reused"
    THEN l
    ELSE [ key |-> { Fingerprint(content) }, contents |-> {} ]

\* yarn install fills the cache folder, which is the layer unless zero-install
PopulateLayer(l, zi, content) ==
    IF zi THEN l ELSE [ l EXCEPT !.contents = @ \cup { content } ]

----------------------------------------------------------------------------
(* Control flow decisions of build *)

\* match cfg::requested_yarn_range(&pkg_json): the None arm parses the default
ParsesDefault(pkg) == pkg.range = {}

\* Faulty variant: the declared range is ignored, the default is resolved
RequestedRange_AlwaysDefault(pkg) == DEFAULT_YARN_REQUIREMENT

\* match cfg::requested_yarn_range(&pkg_json) { None => default, Some(r) => r }
RequestedRange(pkg) ==
    IF pkg.range = {} THEN DEFAULT_YARN_REQUIREMENT
    ELSE CHOOSE r \in pkg.range : TRUE

\* Faulty variant: an installed yarn that misses the declared range is replaced
FirstQueryBranch_Unsatisfied(r) ==
    CASE r.kind = "Spawn" -> "install"
      [] r.kind = "Ok" ->
            IF Satisfies(r.version, RequestedRange(pkg_json)) THEN "use" ELSE "install"
      [] OTHER -> "fail"

\* Faulty variant: every failed query is taken to mean that yarn is missing
FirstQueryBranch_AnyErrorInstalls(r) ==
    IF r.kind = "Ok" THEN "use" ELSE "install"

\* Faulty variant: a missing binary is propagated like any other failed query
FirstQueryBranch_SpawnFails(r) ==
    IF r.kind = "Ok" THEN "use" ELSE "fail"

\* match cmd::yarn_version(&env) { Err(Spawn) => install, Ok => use, err => fail }
FirstQueryBranch(r) ==
    CASE r.kind = "Spawn" -> "install"
      [] r.kind = "Ok"    -> "use"
      [] OTHER            -> "fail"

\* cmd::yarn_version(&env).map_err(YarnVersionDetect)? after install_yarn
RequeryBranch(r) == IF r.kind = "Ok" THEN "use" ELSE "fail"

\* Faulty variant: the cache layer is configured whatever the cache folder holds
CallsConfigureCache_Always(zi) == TRUE

\* if zero_install { skip } else { configure_yarn_cache(..)? }
CallsConfigureCache(zi) == ~ zi

\* Faulty variant: scripts run only when the flag is explicitly true
RunsScript_OnlyWhenTrue(flag) == flag = "true"

\* if let Some(false) = node_build_scripts_metadata.enabled { skip } else { run }
RunsScript(flag) == flag # "false"

\* Faulty variant: the scripts are walked from the last one to the first
NextScript_Reversed(scripts, idx) == scripts[Len(scripts) - idx + 1]

\* for script in scripts: the script of the idx-th iteration
NextScript(scripts, idx) == scripts[idx]

\* heroku_nodejs_utils::buildplan::NODE_BUILD_SCRIPTS_BUILD_PLAN_NAME
NODE_BUILD_SCRIPTS_BUILD_PLAN_NAME == "node_build_scripts"

\* Faulty variant: detect passes whether or not yarn.lock is there
DetectResult_AlwaysPass(yarn_lock) ==
    [ called |-> TRUE, yarn_lock |-> yarn_lock, pass |-> TRUE,
      provides |-> { "yarn", "node_modules", NODE_BUILD_SCRIPTS_BUILD_PLAN_NAME },
      requires |-> { "node", "yarn", "node_modules",
                     NODE_BUILD_SCRIPTS_BUILD_PLAN_NAME } ]

\* detect: pass with the build plan if yarn.lock exists, fail otherwise
DetectResult(yarn_lock) ==
    IF yarn_lock
    THEN [ called |-> TRUE, yarn_lock |-> yarn_lock, pass |-> TRUE,
           provides |-> { "yarn", "node_modules",
                          NODE_BUILD_SCRIPTS_BUILD_PLAN_NAME },
           requires |-> { "node", "yarn", "node_modules",
                          NODE_BUILD_SCRIPTS_BUILD_PLAN_NAME } ]
    ELSE [ called |-> TRUE, yarn_lock |-> yarn_lock, pass |-> FALSE,
           provides |-> {}, requires |-> {} ]

\* The variants of YarnBuildpackError
YarnBuildpackErrors ==
    { "BuildScript", "CliLayer", "DepsLayer", "InventoryParse", "PackageJson",
      "YarnCacheGet", "YarnDisableGlobalCache", "YarnInstall",
      "YarnVersionDetect", "YarnVersionUnsupported", "YarnVersionResolve",
      "YarnDefaultParse", "NodeBuildScriptsMetadata" }

\* Faulty variant: every failure is reported under the version header
ErrorHeader_AlwaysVersion(e) == "Yarn version error"

\* on_error: the header logged for an error; the last arm takes every
\* libcnb::Error that is not a BuildpackError
ErrorHeader(e) ==
    CASE e = "BuildScript" -> "Yarn build script error"
      [] e = "CliLayer" -> "Yarn distribution layer error"
      [] e = "DepsLayer" -> "Yarn dependency layer error"
      [] e = "InventoryParse" -> "Yarn inventory parse error"
      [] e = "PackageJson" -> "Yarn package.json error"
      [] e \in { "YarnCacheGet", "YarnDisableGlobalCache" } -> "Yarn cache error"
      [] e = "YarnInstall" -> "Yarn install error"
      [] e \in { "YarnVersionDetect", "YarnVersionResolve",
                 "YarnVersionUnsupported", "YarnDefaultParse" } ->
            "Yarn version error"
      [] e = "NodeBuildScriptsMetadata" -> "Yarn buildplan error"
      [] OTHER -> "Yarn internal buildpack error"

\* The one process build may declare
WebProcess ==
    [ type |-> "web", command |-> << "yarn", "start" >>, default |-> TRUE ]

\* Faulty variant: a Procfile does not stop the default web process
LaunchProcesses_IgnoresProcfile(procfile, has_start) ==
    IF has_start THEN << WebProcess >> ELSE << >>

\* The launch processes of the BuildResult
LaunchProcesses(procfile, has_start) ==
    IF procfile THEN << >>
    ELSE IF has_start
         THEN << WebProcess >>
         ELSE << >>

----------------------------------------------------------------------------
(* Steps *)

Entry(op, arg) == [ op |-> op, arg |-> arg, env |-> env ]

\* Faulty variant: the error is recorded but build does not return
Fail_KeepGoing(e) ==
    /\ errors' = Append(errors, e)
    /\ carried' = << >>
    /\ status' = "failed"
    /\ pc' = pc

\* `?` on an Err: build returns the error, nothing after it runs
Fail(e) ==
    /\ errors' = Append(errors, e)
    /\ carried' = << >>
    /\ status' = "failed"
    /\ pc' = "done"

\* `?` on an Err whose variant carries a value
FailWith(e, payload) ==
    /\ errors' = Append(errors, e)
    /\ carried' = payload
    /\ status' = "failed"
    /\ pc' = "done"

Goto(p) ==
    /\ pc' = p
    /\ UNCHANGED << errors, carried, status >>

\* The content a finished build's reconcile call saw, if it made one
ReconciledBy(d, content) ==
    IF d \in { "Reused", "Invalidated" } THEN { content } ELSE {}

\* What no step inside build changes
across == << inventory_parses, layer_before, last_reconciled,
             headers, detected, resolver >>

\* No detect call yet
NoDetect ==
    [ called |-> FALSE, yarn_lock |-> FALSE, pass |-> FALSE,
      provides |-> {}, requires |-> {} ]

\* Nothing has run yet
Fresh ==
    /\ pc = "idle"
    /\ env = BaseEnv
    /\ pkg_json = NoPackageJson
    /\ enabled = "absent"
    /\ first_query = NoQuery
    /\ requery = NoQuery
    /\ requested = {}
    /\ release = {}
    /\ yarn_version = << >>
    /\ zero_install = "unset"
    /\ script_idx = 1
    /\ lockfile = << >>
    /\ decision = "None"
    /\ layer = EmptyLayer
    /\ layer_before = EmptyLayer
    /\ last_reconciled = {}
    /\ log = << >>
    /\ errors = << >>
    /\ status = "none"
    /\ launch = << >>
    /\ carried = << >>
    /\ headers = << >>
    /\ detected = NoDetect
    /\ res_catalog = << >>
    /\ res_req = << >>
    /\ res_result = {}

Init ==
    /\ inventory_parses \in BOOLEAN
    /\ res_pc = "off"
    /\ Fresh

\* The platform invokes detect for the next run; what the run before left
\* behind, the cache layer apart, is gone
Detect ==
    /\ pc \in { "idle", "done", "skipped" }
    /\ status = "failed" => headers # << >>
    /\ \E yarn_lock \in BOOLEAN :
        /\ detected' = DetectResult(yarn_lock)
        /\ pc' = IF DetectResult(yarn_lock).pass THEN "detected" ELSE "skipped"
    /\ env' = BaseEnv
    /\ pkg_json' = NoPackageJson
    /\ enabled' = "absent"
    /\ first_query' = NoQuery
    /\ requery' = NoQuery
    /\ requested' = {}
    /\ release' = {}
    /\ yarn_version' = << >>
    /\ zero_install' = "unset"
    /\ script_idx' = 1
    /\ lockfile' = << >>
    /\ decision' = "None"
    /\ last_reconciled' =
          IF ReconciledBy(decision, lockfile) = {} THEN last_reconciled
          ELSE ReconciledBy(decision, lockfile)
    /\ log' = << >>
    /\ errors' = << >>
    /\ carried' = << >>
    /\ headers' = << >>
    /\ status' = "none"
    /\ launch' = << >>
    /\ layer_before' = layer
    /\ UNCHANGED << inventory_parses, layer, resolver >>

\* The platform invokes build: let mut env = Env::from_current();
StartBuild ==
    /\ pc = "detected"
    /\ pc' = "read_package_json"
    /\ env' = BaseEnv
    /\ status' = "running"
    /\ UNCHANGED << inventory_parses, pkg_json, enabled, first_query, requery,
                    requested, release, yarn_version, zero_install, script_idx,
                    lockfile, decision, layer, layer_before,
                    last_reconciled, log,
                    errors, launch, carried, headers, detected, resolver >>

\* PackageJson::read(..).map_err(PackageJson)?
ReadPackageJson ==
    /\ pc = "read_package_json"
    /\ \/ \E p \in PackageJsons :
            /\ pkg_json' = p
            /\ Goto("read_metadata")
       \/ /\ Fail("PackageJson")
          /\ UNCHANGED pkg_json
    /\ UNCHANGED << across, env, enabled, first_query, requery, requested,
                    release, yarn_version, zero_install, script_idx, lockfile,
                    decision, layer, log, launch >>

\* read_node_build_scripts_metadata(..).map_err(NodeBuildScriptsMetadata)?
ReadBuildScriptsMetadata ==
    /\ pc = "read_metadata"
    /\ \/ \E f \in { "absent", "true", "false" } :
            /\ enabled' = f
            /\ Goto("yarn_version")
       \/ /\ Fail("NodeBuildScriptsMetadata")
          /\ UNCHANGED enabled
    /\ UNCHANGED << across, env, pkg_json, first_query, requery, requested,
                    release, yarn_version, zero_install, script_idx, lockfile,
                    decision, layer, log, launch >>

\* let yarn_version = match cmd::yarn_version(&env) { .. }
QueryYarnVersion ==
    /\ pc = "yarn_version"
    /\ \E r \in QueryOutcomes :
        /\ first_query' = r
        /\ log' = Append(log, Entry("yarn_version", "first"))
        /\ CASE FirstQueryBranch(r) = "install" ->
                  /\ Goto("inventory_parse")
                  /\ UNCHANGED yarn_version
             [] FirstQueryBranch(r) = "use" ->
                  /\ yarn_version' = r.version
                  /\ Goto("from_major")
             [] OTHER ->
                  /\ Fail("YarnVersionDetect")
                  /\ UNCHANGED yarn_version
    /\ UNCHANGED << across, env, pkg_json, enabled, requery, requested, release,
                    zero_install, script_idx, lockfile, decision, layer, launch >>

\* toml::from_str(INVENTORY).map_err(InventoryParse)?
ParseInventory ==
    /\ pc = "inventory_parse"
    /\ log' = Append(log, Entry("inventory_parse", ""))
    /\ IF inventory_parses THEN Goto("resolve") ELSE Fail("InventoryParse")
    /\ UNCHANGED << across, env, pkg_json, enabled, first_query, requery,
                    requested, release, yarn_version, zero_install, script_idx,
                    lockfile, decision, layer, launch >>

\* requested_yarn_cli_range: with no declared range the default is parsed,
\* Requirement::parse(DEFAULT_YARN_REQUIREMENT).map_err(YarnDefaultParse)?,
\* and the parser may reject it; then
\* inventory.resolve(..).ok_or(YarnVersionResolve(..))?
ResolveVersion ==
    /\ pc = "resolve"
    /\ \/ /\ ParsesDefault(pkg_json)
          /\ Fail("YarnDefaultParse")
          /\ UNCHANGED << requested, release, log >>
       \/ /\ requested' = { RequestedRange(pkg_json) }
          /\ release' = Resolve(RequestedRange(pkg_json), INVENTORY)
          /\ log' = Append(log, Entry("resolve", ""))
          /\ IF Resolve(RequestedRange(pkg_json), INVENTORY) = {}
             THEN FailWith("YarnVersionResolve", RequestedRange(pkg_json))
             ELSE Goto("install_yarn")
    /\ UNCHANGED << across, env, pkg_json, enabled, first_query, requery,
                    yarn_version, zero_install, script_idx, lockfile, decision,
                    layer, launch >>

\* Faulty variant: the resolved release is trusted, the version is not queried again
InstallYarn_NoRequery ==
    /\ pc = "install_yarn"
    /\ log' = Append(log, Entry("install_yarn", ""))
    /\ \/ /\ env' = ApplyBuildScope(YarnBuildEnv, env)
          /\ Goto("disable_global_cache")
       \/ /\ Fail("CliLayer")
          /\ UNCHANGED env
    /\ UNCHANGED << across, pkg_json, enabled, first_query, requery, requested,
                    release, yarn_version, zero_install, script_idx, lockfile,
                    decision, layer, launch >>

\* let yarn_env = install_yarn(&context, yarn_cli_release)?;
\* env = yarn_env.apply(Scope::Build, &env);
InstallYarn ==
    /\ pc = "install_yarn"
    /\ log' = Append(log, Entry("install_yarn", ""))
    /\ \/ /\ env' = ApplyBuildScope(YarnBuildEnv, env)
          /\ Goto("requery")
       \/ /\ Fail("CliLayer")
          /\ UNCHANGED env
    /\ UNCHANGED << across, pkg_json, enabled, first_query, requery, requested,
                    release, yarn_version, zero_install, script_idx, lockfile,
                    decision, layer, launch >>

\* Faulty variant: a failed second query has yarn installed once more
RequeryYarnVersion_RetriesOnce ==
    /\ pc = "requery"
    /\ \E r \in RequeryOutcomes(release) :
        /\ requery' = r
        /\ log' = Append(log, Entry("yarn_version", "again"))
        /\ IF RequeryBranch(r) = "use"
           THEN /\ yarn_version' = r.version
                /\ Goto("from_major")
           ELSE /\ IF Len(SelectSeq(log, LAMBDA e : e.op = "install_yarn")) < 2
                   THEN Goto("install_yarn")
                   ELSE Fail("YarnVersionDetect")
                /\ UNCHANGED yarn_version
    /\ UNCHANGED << across, env, pkg_json, enabled, first_query, requested,
                    release, zero_install, script_idx, lockfile, decision, layer,
                    launch >>

\* cmd::yarn_version(&env).map_err(YarnVersionDetect)?
RequeryYarnVersion ==
    /\ pc = "requery"
    /\ \E r \in RequeryOutcomes(release) :
        /\ requery' = r
        /\ log' = Append(log, Entry("yarn_version", "again"))
        /\ IF RequeryBranch(r) = "use"
           THEN /\ yarn_version' = r.version
                /\ Goto("from_major")
           ELSE /\ Fail("YarnVersionDetect")
                /\ UNCHANGED yarn_version
    /\ UNCHANGED << across, env, pkg_json, enabled, first_query, requested,
                    release, zero_install, script_idx, lockfile, decision, layer,
                    launch >>

\* Faulty variant: an unsupported major falls back to a default mode
SelectYarn_Fallback ==
    /\ pc = "from_major"
    /\ Goto("disable_global_cache")
    /\ UNCHANGED << across, env, pkg_json, enabled, first_query, requery,
                    requested, release, yarn_version, zero_install, script_idx,
                    lockfile, decision, layer, log, launch >>

\* Yarn::from_major(yarn_version.major()).ok_or_else(YarnVersionUnsupported)?
SelectYarn ==
    /\ pc = "from_major"
    /\ IF FromMajor(yarn_version[1]) = {}
       THEN FailWith("YarnVersionUnsupported", << yarn_version[1] >>)
       ELSE Goto("disable_global_cache")
    /\ UNCHANGED << across, env, pkg_json, enabled, first_query, requery,
                    requested, release, yarn_version, zero_install, script_idx,
                    lockfile, decision, layer, log, launch >>

\* cmd::yarn_disable_global_cache(&yarn, &env).map_err(YarnDisableGlobalCache)?
DisableGlobalCache ==
    /\ pc = "disable_global_cache"
    /\ log' = Append(log, Entry("yarn_disable_global_cache", ""))
    /\ \/ Goto("get_cache")
       \/ Fail("YarnDisableGlobalCache")
    /\ UNCHANGED << across, env, pkg_json, enabled, first_query, requery,
                    requested, release, yarn_version, zero_install, script_idx,
                    lockfile, decision, layer, launch >>

\* let zero_install = cfg::cache_populated(&cmd::yarn_get_cache(..).map_err(YarnCacheGet)?)
GetCache ==
    /\ pc = "get_cache"
    /\ log' = Append(log, Entry("yarn_get_cache", ""))
    /\ \/ \E populated \in { "true", "false" } :
            /\ zero_install' = populated
            /\ Goto("configure_cache")
       \/ /\ Fail("YarnCacheGet")
          /\ UNCHANGED zero_install
    /\ UNCHANGED << across, env, pkg_json, enabled, first_query, requery,
                    requested, release, yarn_version, script_idx, lockfile,
                    decision, layer, launch >>

\* if zero_install { log_info(..) } else { configure_yarn_cache(&context, &yarn, &env)?; }
ConfigureCache ==
    /\ pc = "configure_cache"
    /\ IF CallsConfigureCache(zero_install = "true")
       THEN /\ log' = Append(log, Entry("configure_yarn_cache", ""))
            /\ \/ \E content \in Lockfiles :
                    /\ lockfile' = content
                    /\ decision' = ReconcileDecision(layer, content)
                    /\ layer' = ReconcileLayer(layer, content)
                    /\ Goto("yarn_install")
               \/ /\ Fail("DepsLayer")
                  /\ UNCHANGED << lockfile, decision, layer >>
       ELSE /\ decision' = "Bypassed"
            /\ Goto("yarn_install")
            /\ UNCHANGED << log, lockfile, layer >>
    /\ UNCHANGED << across, env, pkg_json, enabled, first_query, requery,
                    requested, release, yarn_version, zero_install, script_idx,
                    launch >>

\* Faulty variant: yarn install is never told of a zero-install
YarnInstall_NeverZeroInstall ==
    /\ pc = "yarn_install"
    /\ log' = Append(log, Entry("yarn_install", "false"))
    /\ \/ /\ layer' = PopulateLayer(layer, zero_install = "true", lockfile)
          /\ Goto("scripts")
       \/ /\ Fail("YarnInstall")
          /\ UNCHANGED layer
    /\ UNCHANGED << across, env, pkg_json, enabled, first_query, requery,
                    requested, release, yarn_version, zero_install, script_idx,
                    lockfile, decision, launch >>

\* cmd::yarn_install(&yarn, zero_install, &env).map_err(YarnInstall)?
YarnInstall ==
    /\ pc = "yarn_install"
    /\ log' = Append(log, Entry("yarn_install", zero_install))
    /\ \/ /\ layer' = PopulateLayer(layer, zero_install = "true", lockfile)
          /\ Goto("scripts")
       \/ /\ Fail("YarnInstall")
          /\ UNCHANGED layer
    /\ UNCHANGED << across, env, pkg_json, enabled, first_query, requery,
                    requested, release, yarn_version, zero_install, script_idx,
                    lockfile, decision, launch >>

\* One iteration of `for script in scripts { .. }`
RunScript ==
    /\ pc = "scripts"
    /\ script_idx <= Len(pkg_json.scripts)
    /\ IF RunsScript(enabled)
       THEN /\ log' = Append(log, Entry("yarn_run",
                                        NextScript(pkg_json.scripts, script_idx)))
            /\ \/ /\ script_idx' = script_idx + 1
                  /\ Goto("scripts")
               \/ /\ Fail("BuildScript")
                  /\ UNCHANGED script_idx
       ELSE /\ script_idx' = script_idx + 1
            /\ Goto("scripts")
            /\ UNCHANGED log
    /\ UNCHANGED << across, env, pkg_json, enabled, first_query, requery,
                    requested, release, yarn_version, zero_install, lockfile,
                    decision, layer, launch >>

\* The tail of build: the Procfile test and the BuildResult
EmitLaunch ==
    /\ pc = "scripts"
    /\ script_idx > Len(pkg_json.scripts)
    /\ \E procfile \in BOOLEAN :
        /\ log' = Append(log, Entry("launch", IF procfile THEN "procfile" ELSE ""))
        /\ launch' = LaunchProcesses(procfile, pkg_json.start)
    /\ status' = "success"
    /\ pc' = "done"
    /\ UNCHANGED << across, env, pkg_json, enabled, first_query, requery,
                    requested, release, yarn_version, zero_install, script_idx,
                    lockfile, decision, layer, errors, carried >>

\* The platform hands the Err build returned to on_error
OnError ==
    /\ pc = "done"
    /\ status = "failed"
    /\ headers = << >>
    /\ headers' = << ErrorHeader(errors[1]) >>
    /\ UNCHANGED << inventory_parses, pc, env, pkg_json, enabled, first_query,
                    requery, requested, release, yarn_version, zero_install,
                    script_idx, lockfile, decision, layer, layer_before,
                    last_reconciled, log, errors, status, launch,
                    carried, detected, resolver >>

Next ==
    \/ Detect
    \/ StartBuild
    \/ ReadPackageJson
    \/ ReadBuildScriptsMetadata
    \/ QueryYarnVersion
    \/ ParseInventory
    \/ ResolveVersion
    \/ InstallYarn
    \/ RequeryYarnVersion
    \/ SelectYarn
    \/ DisableGlobalCache
    \/ GetCache
    \/ ConfigureCache
    \/ YarnInstall
    \/ RunScript
    \/ EmitLaunch
    \/ OnError

Spec == Init /\ [][Next]_vars

\* The steps inside build
BuildStep ==
    \/ ReadPackageJson
    \/ ReadBuildScriptsMetadata
    \/ QueryYarnVersion
    \/ ParseInventory
    \/ ResolveVersion
    \/ InstallYarn
    \/ RequeryYarnVersion
    \/ SelectYarn
    \/ DisableGlobalCache
    \/ GetCache
    \/ ConfigureCache
    \/ YarnInstall
    \/ RunScript
    \/ EmitLaunch

\* Every external command returns: a build that can take a step takes one
SpecLive == Spec /\ WF_vars(BuildStep)

-----------------------------------------------------------------------------
(* inventory.resolve on its own, over every small inventory *)

\* Everything of a build, which a resolver run leaves alone
building == << inventory_parses, pc, env, pkg_json, enabled, first_query,
               requery, requested, release, yarn_version, zero_install,
               script_idx, lockfile, decision, layer, layer_before,
               last_reconciled, log, errors, status, launch, carried, headers,
               detected >>

\* The releases an inventory may list
CatalogVersions == { << m, n, p >> : m \in 1..2, n \in 21..22, p \in 0..1 }

\* Inventories of up to MaxCatalog releases, in any order, repeats allowed
Catalogs ==
    UNION { [ 1..k -> CatalogVersions ] : k \in 0..MaxCatalog }

\* Requirements: any release, a major, a major and a minor
Requirements == { << >>, << 1 >>, << 2 >>, << 3 >>, << 1, 22 >>, << 2, 21 >> }

InitResolve ==
    /\ inventory_parses = TRUE
    /\ res_pc = "input"
    /\ Fresh

\* An inventory and a requirement are given
ChooseInput ==
    /\ res_pc = "input"
    /\ res_catalog' \in Catalogs
    /\ res_req' \in Requirements
    /\ res_result' = {}
    /\ res_pc' = "chosen"
    /\ UNCHANGED building

\* inventory.resolve(&requirement)
ApplyResolve ==
    /\ res_pc = "chosen"
    /\ res_result' = Resolve(res_req, res_catalog)
    /\ res_pc' = "resolved"
    /\ UNCHANGED << building, res_catalog, res_req >>

\* The next call starts from nothing
NextInput ==
    /\ res_pc = "resolved"
    /\ res_pc' = "input"
    /\ res_catalog' = << >>
    /\ res_req' = << >>
    /\ res_result' = {}
    /\ UNCHANGED building

NextResolve ==
    \/ ChooseInput
    \/ ApplyResolve
    \/ NextInput

SpecResolve == InitResolve /\ [][NextResolve]_vars

----------------------------------------------------------------------------
(* Reading the log of a build *)

\* The phase a log entry belongs to
PhaseOf(e) ==
    IF e.op = "yarn_version"
    THEN IF e.arg = "first" THEN "query" ELSE "requery"
    ELSE e.op

Phase(i) == PhaseOf(log[i])

Phases == [ i \in 1..Len(log) |-> Phase(i) ]

Ran(phase) == \E i \in 1..Len(log) : Phase(i) = phase

Count(phase) == Cardinality({ i \in 1..Len(log) : Phase(i) = phase })

LastPhase == IF log = << >> THEN "none" ELSE Phase(Len(log))

\* The scripts handed to cmd::yarn_run, in the order they were run
ScriptsRun ==
    LET runs == SelectSeq(log, LAMBDA e : e.op = "yarn_run")
    IN  [ i \in 1..Len(runs) |-> runs[i].arg ]

InstallBranchPhases == { "inventory_parse", "resolve", "install_yarn", "requery" }

----------------------------------------------------------------------------
(* C1 *)

\* C1: the install branch (catalog parsing, version resolution, install_yarn)
\* is entered exactly when the first yarn version query fails with a Spawn
\* error, and inside it each step runs unless the step before it failed.  When
\* the first query succeeds the reported version is the version in use,
\* whatever range package.json declares, and nothing is resolved or installed.
C1_InstallBranchIffSpawn ==
    /\ \A ph \in InstallBranchPhases : Ran(ph) => first_query.kind = "Spawn"
    /\ (first_query.kind = "Spawn" /\ pc = "done") =>
          /\ Ran("inventory_parse")
          /\ Ran("resolve")
                \/ errors \in { << "InventoryParse" >>, << "YarnDefaultParse" >> }
          /\ \/ Ran("install_yarn")
             \/ errors \in { << "InventoryParse" >>, << "YarnDefaultParse" >>,
                              << "YarnVersionResolve" >> }
    /\ first_query.kind = "Ok" =>
          /\ yarn_version = first_query.version
          /\ requested = {} /\ release = {}
          /\ env = BaseEnv
          /\ \A ph \in InstallBranchPhases : ~ Ran(ph)

\* An installed yarn outside the declared range was used for a whole build
C1_Witness ==
    /\ status = "success"
    /\ first_query.kind = "Ok"
    /\ pkg_json.range # {}
    /\ ~ Satisfies(yarn_version, RequestedRange(pkg_json))

----------------------------------------------------------------------------
(* C2 *)

\* The phase that may directly follow phase a in one build
Follows(a, b) ==
    CASE a = "query" ->
            IF first_query.kind = "Spawn" THEN b = "inventory_parse"
            ELSE b = "yarn_disable_global_cache"
      [] a = "inventory_parse" -> b = "resolve"
      [] a = "resolve" -> b = "install_yarn"
      [] a = "install_yarn" -> b = "requery"
      [] a = "requery" -> b = "yarn_disable_global_cache"
      [] a = "yarn_disable_global_cache" -> b = "yarn_get_cache"
      [] a = "yarn_get_cache" ->
            IF zero_install = "true" THEN b = "yarn_install"
            ELSE b = "configure_yarn_cache"
      [] a = "configure_yarn_cache" -> b = "yarn_install"
      [] a = "yarn_install" -> b \in { "yarn_run", "launch" }
      [] a = "yarn_run" -> b \in { "yarn_run", "launch" }
      [] OTHER -> FALSE

\* The place of a phase in the fixed order of build
PhaseRank(ph) ==
    CASE ph = "query" -> 1
      [] ph = "inventory_parse" -> 2
      [] ph = "resolve" -> 3
      [] ph = "install_yarn" -> 4
      [] ph = "requery" -> 5
      [] ph = "yarn_disable_global_cache" -> 6
      [] ph = "yarn_get_cache" -> 7
      [] ph = "configure_yarn_cache" -> 8
      [] ph = "yarn_install" -> 9
      [] ph = "yarn_run" -> 10
      [] ph = "launch" -> 11
      [] OTHER -> 0

\* C2: the phases of a build run one at a time in the fixed order: version
\* query, then (install branch only) catalog parse, resolve, install and
\* re-query, then disable the global cache, read the cache directory,
\* reconcile the cache layer, install dependencies, run the build scripts,
\* emit launch metadata; no phase runs twice or out of this order.
C2_FixedPhaseOrder ==
    /\ log # << >> => Phase(1) = "query"
    /\ \A i \in 1..(Len(log) - 1) : Follows(Phase(i), Phase(i + 1))
    /\ \A i \in 1..(Len(log) - 1) :
          \/ PhaseRank(Phase(i)) < PhaseRank(Phase(i + 1))
          \/ Phase(i) = "yarn_run" /\ Phase(i + 1) = "yarn_run"
    /\ \A i, j \in 1..Len(ScriptsRun) : ScriptsRun[i] = ScriptsRun[j] => i = j

\* A build that went through every phase, install branch and two scripts included
C2_Witness ==
    /\ status = "success"
    /\ Ran("install_yarn") /\ Ran("requery")
    /\ Ran("configure_yarn_cache")
    /\ Len(ScriptsRun) = 2

----------------------------------------------------------------------------
(* C3 *)

\* The last call build made before it returned a given error; the default
\* range is parsed right after the inventory, with no call in between
ErrorPhases(e) ==
    CASE e = "YarnVersionDetect" -> { "query", "requery" }
      [] e = "YarnVersionUnsupported" -> { "query", "requery" }
      [] e = "InventoryParse" -> { "inventory_parse" }
      [] e = "YarnDefaultParse" -> { "inventory_parse" }
      [] e = "YarnVersionResolve" -> { "resolve" }
      [] e = "CliLayer" -> { "install_yarn" }
      [] e = "YarnDisableGlobalCache" -> { "yarn_disable_global_cache" }
      [] e = "YarnCacheGet" -> { "yarn_get_cache" }
      [] e = "DepsLayer" -> { "configure_yarn_cache" }
      [] e = "YarnInstall" -> { "yarn_install" }
      [] e = "BuildScript" -> { "yarn_run" }
      [] OTHER -> { "none" }

\* Every phase that was due in this build has run
AllDuePhasesRan ==
    /\ Ran("query")
    /\ first_query.kind = "Spawn" => \A ph \in InstallBranchPhases : Ran(ph)
    /\ Ran("yarn_disable_global_cache") /\ Ran("yarn_get_cache")
    /\ zero_install = "false" => Ran("configure_yarn_cache")
    /\ Ran("yarn_install")
    /\ RunsScript(enabled) => ScriptsRun = pkg_json.scripts
    /\ LastPhase = "launch"

\* C3: build succeeds only if every due phase completed without error; once
\* a phase fails nothing later runs (the failing phase is the last one in
\* the log), build returns exactly one error and emits no launch process.
C3_FailureShortCircuits ==
    /\ status = "success" => (errors = << >> /\ pc = "done" /\ AllDuePhasesRan)
    /\ errors # << >> => status = "failed"
    /\ status = "failed" =>
          /\ pc = "done"
          /\ Len(errors) = 1
          /\ LastPhase \in ErrorPhases(errors[1])
          /\ launch = << >>
          /\ ~ Ran("launch")

\* Dependency installation failed after the cache layer was reconciled
C3_Witness ==
    /\ status = "failed"
    /\ errors = << "YarnInstall" >>
    /\ Ran("configure_yarn_cache")
    /\ pkg_json.scripts # << >> /\ pkg_json.start

----------------------------------------------------------------------------
(* C4 *)

\* C4: in a zero-install build configure_yarn_cache is never called and the
\* cache layer (key and contents) stays as the build found it; otherwise
\* configure_yarn_cache is called exactly once, before dependencies are
\* installed.
C4_ZeroInstallBypassesLayer ==
    /\ Count("configure_yarn_cache") <= 1
    /\ zero_install = "true" =>
          /\ ~ Ran("configure_yarn_cache")
          /\ layer = layer_before
          /\ lockfile = << >>
          /\ decision \in { "None", "Bypassed" }
    /\ (zero_install = "false" /\ pc # "configure_cache") =>
          Count("configure_yarn_cache") = 1
    /\ (zero_install = "false" /\ Ran("yarn_install")) =>
          \E i, j \in 1..Len(log) :
              /\ i < j
              /\ Phase(i) = "configure_yarn_cache"
              /\ Phase(j) = "yarn_install"

\* A whole zero-install build over a layer that an earlier build had filled
C4_Witness ==
    /\ status = "success"
    /\ zero_install = "true"
    /\ layer_before.contents # {}
    /\ layer = layer_before

----------------------------------------------------------------------------
(* C5 *)

Reconciles == decision \in { "Reused", "Invalidated" }

\* C5: a non-bypassed reconcile returns Reused and leaves key and contents
\* alone exactly when the persisted key is the fingerprint of the current
\* lockfile; otherwise it clears the contents, persists the new fingerprint
\* and returns Invalidated.  After the call the key is the current lockfile's
\* fingerprint, and a call that sees the bytes of the call before it is Reused.
C5_ReconcileByFingerprint ==
    /\ Reconciles =>
          /\ decision = "Reused" <=> layer_before.key = { Fingerprint(lockfile) }
          /\ layer.key = { Fingerprint(lockfile) }
          /\ last_reconciled = { lockfile } => decision = "Reused"
    /\ (Reconciles /\ pc = "yarn_install") =>
          /\ decision = "Reused" => layer = layer_before
          /\ decision = "Invalidated" =>
                layer = [ key |-> { Fingerprint(lockfile) }, contents |-> {} ]
    /\ last_reconciled # {} =>
          \E c \in last_reconciled : layer_before.key = { Fingerprint(c) }

\* A layer filled under some lockfile is cleared by a reconcile with another one
C5_Witness ==
    /\ pc = "yarn_install"
    /\ decision = "Invalidated"
    /\ layer_before.contents # {}
    /\ layer.contents = {}

----------------------------------------------------------------------------
(* C7 *)

\* C7: a first version query that fails with anything but a Spawn error (a
\* non-zero exit, unparsable output) aborts build with YarnVersionDetect: the
\* install branch is not entered, yarn is not installed, no later phase runs.
C7_OtherQueryFailureAborts ==
    first_query.kind \in { "Exit", "Parse" } =>
        /\ status = "failed" /\ pc = "done"
        /\ errors = << "YarnVersionDetect" >>
        /\ Phases = << "query" >>
        /\ env = BaseEnv
        /\ requested = {} /\ release = {}
        /\ yarn_version = << >>

\* yarn is there but exits non-zero on the version query
C7_Witness ==
    /\ first_query.kind = "Exit"
    /\ status = "failed"
    /\ pkg_json.range = {}

----------------------------------------------------------------------------
(* C8 *)

\* C8 as stated: wherever build queries the yarn version, a Spawn error is
\* not surfaced as a build failure but leads to the install branch.
C8_SpawnNeverSurfaced ==
    /\ first_query.kind = "Spawn" =>
          (pc = "inventory_parse" \/ Ran("inventory_parse"))
    /\ requery.kind = "Spawn" => status # "failed"

\* C8, amended: a Spawn error of the first version query is not surfaced, it
\* leads to the install branch; a Spawn error of the query made again after
\* install_yarn is surfaced, as YarnVersionDetect, like any other failure.
C8_FirstSpawnNotSurfaced ==
    /\ first_query.kind = "Spawn" =>
          /\ pc = "inventory_parse" \/ Ran("inventory_parse")
          /\ LastPhase = "query" => (status = "running" /\ errors = << >>)
    /\ requery.kind = "Spawn" =>
          /\ status = "failed"
          /\ errors = << "YarnVersionDetect" >>
          /\ LastPhase = "requery"

\* yarn was installed and still cannot be spawned
C8_Witness ==
    /\ first_query.kind = "Spawn"
    /\ Ran("install_yarn")
    /\ requery.kind = "Spawn"

----------------------------------------------------------------------------
(* C9 *)

\* C9: the release catalog is loaded once at the start of build, so that a
\* catalog that does not parse aborts build before any phase runs: the
\* catalog is parsed before the yarn version query and before every other
\* command, in every build, with yarn installed or not, and a build whose
\* catalog does not parse runs no command and does not succeed.
C9_ParseFailureBeforeAnyPhase ==
    /\ log # << >> => Phase(1) = "inventory_parse"
    /\ status = "success" => Ran("inventory_parse")
    /\ ~ inventory_parses =>
          /\ \A i \in 1..Len(log) : Phase(i) = "inventory_parse"
          /\ status # "success"

\* yarn is installed: a whole build succeeds and the catalog was never parsed
C9_Witness ==
    /\ first_query.kind = "Ok"
    /\ status = "success"
    /\ Ran("yarn_install")
    /\ ~ Ran("inventory_parse")

----------------------------------------------------------------------------
(* C10 *)

\* C10: unless suppressed, the declared build scripts are run one at a time
\* in declaration order, each only after the one before it succeeded; the
\* first script that fails aborts build with BuildScript and no later
\* script is run.
C10_ScriptsInDeclarationOrder ==
    RunsScript(enabled) =>
        /\ Len(ScriptsRun) <= Len(pkg_json.scripts)
        /\ ScriptsRun = SubSeq(pkg_json.scripts, 1, Len(ScriptsRun))
        /\ status # "failed" => Len(ScriptsRun) = script_idx - 1
        /\ errors = << "BuildScript" >> <=>
              (status = "failed" /\ LastPhase = "yarn_run")
        /\ errors = << "BuildScript" >> => Len(ScriptsRun) = script_idx
        /\ status = "success" => ScriptsRun = pkg_json.scripts

\* The first of two declared scripts fails and the second is not run
C10_Witness ==
    /\ RunsScript(enabled)
    /\ Len(pkg_json.scripts) = 2
    /\ errors = << "BuildScript" >>
    /\ ScriptsRun = << pkg_json.scripts[1] >>

-----------------------------------------------------------------------------
(* C11 *)

\* A proper or improper prefix
IsPrefix(a, b) == Len(a) <= Len(b) /\ a = SubSeq(b, 1, Len(a))

\* The build got past yarn install
PastInstall == Ran("yarn_install") /\ errors # << "YarnInstall" >>

\* C11: build scripts are suppressed exactly when the opt-out flag of the
\* build plan is explicitly false: no declared script is run, no error comes
\* of it, and a build that got past yarn install goes on to the launch
\* metadata and succeeds.  With the flag absent or true every declared script
\* is run, in a build that succeeds all of them, and otherwise all up to the
\* one that failed.
C11_ScriptsSuppressedIffFalse ==
    /\ enabled = "false" =>
          /\ ScriptsRun = << >>
          /\ errors # << "BuildScript" >>
          /\ (PastInstall /\ pc = "done") =>
                status = "success" /\ LastPhase = "launch"
    /\ (enabled # "false" /\ PastInstall) =>
          /\ IsPrefix(ScriptsRun, pkg_json.scripts)
          /\ status = "success" => ScriptsRun = pkg_json.scripts
          /\ status = "failed" =>
                errors = << "BuildScript" >> /\ LastPhase = "yarn_run"
          /\ (pc = "scripts" /\ script_idx <= Len(pkg_json.scripts)) =>
                Len(ScriptsRun) = script_idx - 1

\* Two scripts are declared, the flag is false, and the build succeeds
\* without having run either
C11_Witness ==
    /\ enabled = "false"
    /\ status = "success"
    /\ Len(pkg_json.scripts) = 2
    /\ ScriptsRun = << >>
    /\ LastPhase = "launch"

-----------------------------------------------------------------------------
(* C12 *)

\* The Procfile test of the build that has ended found a Procfile
ProcfileSeen == log # << >> /\ log[Len(log)].op = "launch" /\ log[Len(log)].arg = "procfile"

\* C12: a successful build declares exactly one launch process, web with the
\* command yarn start and marked default, if and only if the app has no
\* Procfile and package.json has a start script; otherwise it declares none.
\* No build declares more than one, and a build that has not succeeded
\* declares none.
C12_OneWebProcessIffNoProcfileAndStart ==
    /\ Len(launch) <= 1
    /\ status = "success" =>
          /\ Len(launch) = 1 <=> (~ ProcfileSeen /\ pkg_json.start)
          /\ Len(launch) = 1 =>
                /\ launch[1].type = "web"
                /\ launch[1].command = << "yarn", "start" >>
                /\ launch[1].default
    /\ status # "success" => launch = << >>

\* A start script and a Procfile: the build succeeds and declares no process
C12_Witness ==
    /\ status = "success"
    /\ ProcfileSeen
    /\ pkg_json.start
    /\ launch = << >>

-----------------------------------------------------------------------------
(* C13 *)

\* The headers on_error logs for a YarnBuildpackError
CategoryHeaders ==
    { "Yarn build script error", "Yarn distribution layer error",
      "Yarn dependency layer error", "Yarn inventory parse error",
      "Yarn package.json error", "Yarn cache error", "Yarn install error",
      "Yarn version error", "Yarn buildplan error" }

VersionErrors ==
    { "YarnVersionDetect", "YarnVersionResolve", "YarnVersionUnsupported",
      "YarnDefaultParse" }

CacheErrors == { "YarnCacheGet", "YarnDisableGlobalCache" }

\* C13: on_error maps every failure of build to exactly one header of a fixed
\* set, by the error variant alone: version detection, version resolution,
\* unsupported major and default-range parsing to the version header; reading
\* the cache directory and disabling the global cache to the cache header;
\* a failed dependency install to the install header; a failed build script
\* to the build script header.  Every variant has a header of the set, and a
\* failed build is reported under one header, that of its error.
C13_OneHeaderPerVariant ==
    /\ \A e \in YarnBuildpackErrors : ErrorHeader(e) \in CategoryHeaders
    /\ \A e \in VersionErrors : ErrorHeader(e) = "Yarn version error"
    /\ \A e \in CacheErrors : ErrorHeader(e) = "Yarn cache error"
    /\ ErrorHeader("YarnInstall") = "Yarn install error"
    /\ ErrorHeader("BuildScript") = "Yarn build script error"
    /\ errors # << >> => errors[1] \in YarnBuildpackErrors
    /\ headers # << >> =>
          /\ status = "failed"
          /\ Len(headers) = 1
          /\ headers[1] \in CategoryHeaders
          /\ errors[1] \in VersionErrors => headers[1] = "Yarn version error"
          /\ errors[1] \in CacheErrors => headers[1] = "Yarn cache error"
          /\ errors[1] = "YarnInstall" => headers[1] = "Yarn install error"
          /\ errors[1] = "BuildScript" => headers[1] = "Yarn build script error"
    /\ status # "failed" => headers = << >>

\* The cache directory could not be read: the build is reported as a cache error
C13_Witness ==
    /\ errors = << "YarnCacheGet" >>
    /\ headers = << "Yarn cache error" >>

-----------------------------------------------------------------------------
(* C14 *)

\* The yarn in use has a major version outside the supported ones
UnsupportedInUse ==
    /\ yarn_version # << >>
    /\ yarn_version[1] \notin SupportedMajors
    /\ pc # "from_major"

\* C14: when the major version of the yarn in use, found installed or freshly
\* installed, is not a supported one, build aborts with YarnVersionUnsupported
\* carrying that major: no default mode is fallen back to, and no cache
\* command, dependency install or build script is run.  The error is returned
\* for no other reason.
C14_UnsupportedMajorAborts ==
    /\ UnsupportedInUse =>
          /\ status = "failed" /\ pc = "done"
          /\ errors = << "YarnVersionUnsupported" >>
          /\ carried = << yarn_version[1] >>
          /\ LastPhase \in { "query", "requery" }
          /\ \A ph \in { "yarn_disable_global_cache", "yarn_get_cache",
                          "configure_yarn_cache", "yarn_install", "yarn_run",
                          "launch" } : ~ Ran(ph)
          /\ zero_install = "unset"
          /\ launch = << >>
    /\ "YarnVersionUnsupported" \in { errors[i] : i \in 1..Len(errors) } =>
          UnsupportedInUse

\* yarn was missing, a release was installed, and the installed yarn reports
\* an unsupported major
C14_Witness ==
    /\ Ran("install_yarn")
    /\ requery.kind = "Ok"
    /\ errors = << "YarnVersionUnsupported" >>
    /\ carried = << 0 >>

-----------------------------------------------------------------------------
(* C15 *)

\* The releases of a catalog that satisfy a requirement
Matching(req, catalog) ==
    { catalog[i] : i \in { j \in 1..Len(catalog) : Satisfies(catalog[j], req) } }

\* The constraint to resolve: the declared range, else 1.22.x
ConstraintDue ==
    IF pkg_json.range # {} THEN pkg_json.range ELSE { << 1, 22 >> }

\* C15: in the install branch the constraint resolved is the yarn range
\* package.json declares, and the default 1.22.x only when it declares none.
\* When no release of the inventory satisfies the constraint, build fails with
\* YarnVersionResolve carrying that constraint: no other release is taken,
\* install_yarn is not called and no later phase runs.  The error is returned
\* for no other reason.  The default is parsed only when no range is declared;
\* if it does not parse, build returns YarnDefaultParse before resolving.
C15_ResolvesDeclaredElseDefault ==
    /\ Ran("resolve") =>
          /\ requested = ConstraintDue
          /\ \A c \in ConstraintDue :
                Matching(c, INVENTORY) = {} =>
                    /\ status = "failed" /\ pc = "done"
                    /\ errors = << "YarnVersionResolve" >>
                    /\ carried = c
                    /\ release = {}
                    /\ LastPhase = "resolve"
                    /\ ~ Ran("install_yarn")
                    /\ env = BaseEnv
                    /\ yarn_version = << >>
    /\ "YarnVersionResolve" \in { errors[i] : i \in 1..Len(errors) } =>
          /\ Ran("resolve")
          /\ \A c \in ConstraintDue : Matching(c, INVENTORY) = {}
    /\ "YarnDefaultParse" \in { errors[i] : i \in 1..Len(errors) } =>
          /\ pkg_json.range = {}
          /\ LastPhase = "inventory_parse"
          /\ requested = {} /\ release = {}

\* package.json asks for yarn 2, the inventory has none: the default 1.22.x,
\* which the inventory could satisfy, is not taken instead
C15_Witness ==
    /\ pkg_json.range = { << 2 >> }
    /\ Matching(DEFAULT_YARN_REQUIREMENT, INVENTORY) # {}
    /\ errors = << "YarnVersionResolve" >>
    /\ carried = << 2 >>
    /\ release = {}

-----------------------------------------------------------------------------
(* C16 *)

\* major, then minor, then patch, as one number
SemverKey(v) == v[1] * 10000 + v[2] * 100 + v[3]

\* The orders the releases of a catalog of n entries can be listed in
Orders(n) ==
    { f \in [ 1..n -> 1..n ] : \A i, j \in 1..n : i # j => f[i] # f[j] }

Reordered(catalog, f) == [ i \in 1..Len(catalog) |-> catalog[f[i]] ]

\* C16: resolve returns the highest release of the catalog that satisfies the
\* constraint, ordered by major, then minor, then patch, whatever the order
\* the catalog lists its releases in, and returns none exactly when no
\* release satisfies the constraint; the same inputs give the same release.
\* Of 1.21.0, 1.22.0, 1.22.1 the constraint 1.22.x takes 1.22.1.
C16_ResolveHighestSatisfying ==
    /\ Resolve(<< 1, 22 >>, << << 1, 21, 0 >>, << 1, 22, 0 >>, << 1, 22, 1 >> >>)
          = { << 1, 22, 1 >> }
    /\ res_pc = "resolved" =>
          /\ res_result = {} <=> Matching(res_req, res_catalog) = {}
          /\ Cardinality(res_result) <= 1
          /\ \A r \in res_result :
                /\ r \in Matching(res_req, res_catalog)
                /\ \A v \in Matching(res_req, res_catalog) :
                      SemverKey(v) <= SemverKey(r)
          /\ \A f \in Orders(Len(res_catalog)) :
                Resolve(res_req, Reordered(res_catalog, f)) = res_result
          /\ Resolve(res_req, res_catalog) = res_result

\* The highest satisfying release is listed first, lower ones after it
C16_Witness ==
    /\ res_pc = "resolved"
    /\ res_req = << 1 >>
    /\ res_catalog = << << 1, 22, 1 >>, << 1, 21, 0 >>, << 2, 21, 0 >> >>
    /\ res_result = { << 1, 22, 1 >> }

-----------------------------------------------------------------------------
(* C17 *)

\* C17: detect passes if and only if yarn.lock exists in the app directory.
\* A pass carries the build plan that provides exactly yarn, node_modules and
\* the node build scripts, and requires exactly node, yarn, node_modules and
\* the node build scripts; without yarn.lock detect fails with no plan.
C17_DetectIffYarnLock ==
    detected.called =>
        /\ detected.pass <=> detected.yarn_lock
        /\ detected.pass =>
              /\ detected.provides =
                    { "yarn", "node_modules", NODE_BUILD_SCRIPTS_BUILD_PLAN_NAME }
              /\ detected.requires =
                    { "node", "yarn", "node_modules",
                      NODE_BUILD_SCRIPTS_BUILD_PLAN_NAME }
        /\ ~ detected.pass =>
              /\ detected.provides = {}
              /\ detected.requires = {}
              /\ pc = "skipped"
        /\ pc = "skipped" => ~ detected.yarn_lock

\* An app without yarn.lock: detect fails and nothing is built
C17_Witness ==
    /\ detected.called
    /\ ~ detected.yarn_lock
    /\ ~ detected.pass
    /\ detected.requires = {}
    /\ pc = "skipped"

-----------------------------------------------------------------------------
(* C18 *)

\* Where in the log a phase ran
At(phase) == { i \in 1..Len(log) : Phase(i) = phase }

\* C18: yarn install is run as a zero-install exactly when the cache layer
\* was bypassed: the flag handed to yarn_install is true if and only if
\* configure_yarn_cache was skipped in this build, and it is the value
\* computed, once, from the cache directory right after the global cache was
\* disabled.
C18_ZeroInstallFlagIffBypassed ==
    /\ \A i \in At("yarn_install") :
          /\ log[i].arg \in { "true", "false" }
          /\ log[i].arg = zero_install
          /\ log[i].arg = "true" <=> ~ Ran("configure_yarn_cache")
          /\ log[i].arg = "true" <=> decision = "Bypassed"
          /\ At("yarn_get_cache") # {}
          /\ \A g \in At("yarn_get_cache") : g < i
    /\ Cardinality(At("yarn_get_cache")) <= 1
    /\ \A g \in At("yarn_get_cache") :
          g > 1 /\ Phase(g - 1) = "yarn_disable_global_cache"
    /\ zero_install # "unset" <=>
          (At("yarn_get_cache") # {} /\ errors # << "YarnCacheGet" >>)

\* The cache directory is populated: the layer is passed by and yarn install
\* is told so
C18_Witness ==
    /\ zero_install = "true"
    /\ ~ Ran("configure_yarn_cache")
    /\ \E i \in At("yarn_install") : log[i].arg = "true"

-----------------------------------------------------------------------------
(* C19 *)

\* The environment of the call logged right after prev
EnvDue(prev) ==
    IF prev.op = "install_yarn" \/ prev.env # BaseEnv
    THEN BaseEnv \cup YarnBuildEnv
    ELSE BaseEnv

\* C19: when the install branch is taken, every command after install_yarn
\* (the second version query, disabling the global cache, reading the cache
\* directory, configuring the cache, yarn install, the build scripts) runs
\* with the base environment merged with the build-scope environment of the
\* installed yarn; every other command, and every command of a build that
\* does not install yarn, runs with the base environment as it was.  Nothing
\* of the base environment is lost in the merge.
C19_EnvMergedAfterInstall ==
    /\ log # << >> => log[1].env = BaseEnv
    /\ \A i \in 2..Len(log) : log[i].env = EnvDue(log[i - 1])
    /\ ~ Ran("install_yarn") => env = BaseEnv
    /\ BaseEnv \subseteq env
    /\ env # BaseEnv =>
          /\ Ran("install_yarn")
          /\ env = BaseEnv \cup YarnBuildEnv
          /\ "CliLayer" \notin { errors[i] : i \in 1..Len(errors) }

\* yarn was installed and a build script ran: the first query saw the base
\* environment, the script the merged one
C19_Witness ==
    /\ Ran("install_yarn")
    /\ log[1].env = BaseEnv
    /\ LastPhase = "yarn_run"
    /\ log[Len(log)].env = BaseEnv \cup YarnBuildEnv
    /\ BaseEnv \cup YarnBuildEnv # BaseEnv
    /\ BaseEnv \cup YarnBuildEnv # YarnBuildEnv

-----------------------------------------------------------------------------
(* C20 *)

\* How often build has called install_yarn and cmd::yarn_version, and how
\* it may have ended
CallBounds ==
    /\ Count("install_yarn") <= 1
    /\ Count("query") <= 1
    /\ Count("requery") <= 1
    /\ Ran("requery") =>
          /\ Ran("install_yarn")
          /\ Phase(Len(log)) = "requery" =>
                Len(log) > 1 /\ Phase(Len(log) - 1) = "install_yarn"
          /\ "CliLayer" \notin { errors[i] : i \in 1..Len(errors) }
    /\ Len(errors) <= 1
    /\ status = "success" <=> (pc = "done" /\ errors = << >>)
    /\ status = "failed" <=> (pc = "done" /\ Len(errors) = 1)

\* C20: in one run of build install_yarn is called at most once and the yarn
\* version is queried at most twice, the second time only after yarn was
\* installed; nothing is retried, so when every external command returns a
\* running build ends, in success or with exactly one error.
C20_NoRetryAndTermination ==
    /\ [] CallBounds
    /\ (status = "running") ~> (pc = "done" /\ status \in { "success", "failed" })

\* yarn was missing: one install, two version queries, and the build succeeds
C20_Witness ==
    /\ Count("install_yarn") = 1
    /\ Count("query") = 1
    /\ Count("requery") = 1
    /\ status = "success"

====
